---- MODULE Spec2Model ----
(***************************************************************************)
(* Model of the vag token sources: tokenSource (a refreshing, caching      *)
(* token source guarded by a mutex) and metaTokenSource (a token source    *)
(* that re-creates its tokenSource from a new bootstrap token once the     *)
(* held one fails).  Callers are concurrent goroutines.                    *)
(***************************************************************************)
EXTENDS Integers, FiniteSets, Sequences, TLC

\* ------------------------------------------------------------------ bounds
NProcs == 2        \* concurrent callers
MaxTime == 2       \* the clock runs from 1 to MaxTime
MaxBuilt == 2      \* token sources the newTS factory can have alive at once
SlowQuery == 40    \* what a slow query of the RCT device takes, in units of 10 ms

\* --------------------------------------------------------- program constants
Minute == 1        \* time.Minute, in clock units
NilTS == 0         \* metaTokenSource.ts == nil
Direct == 1        \* the tokenSource the application built with RefreshTokenSource
\* the time of the backoff policy, in units of 10 ms
InitialInterval == 1     \* bo.InitialInterval = 10 * time.Millisecond
MaxElapsedTime == 100    \* bo.MaxElapsedTime = time.Second

Procs == 1..NProcs
Built == (Direct + 1)..(Direct + MaxBuilt)
TS == {Direct} \cup Built

\* ------------------------------------------------------------------ tokens
\* *Token == nil
NilToken == [nil |-> TRUE]

\* Expiry 0 is the zero time.Time; "" is the empty string.
Token(a, r, e, i) == [AccessToken |-> a, RefreshToken |-> r, Expiry |-> e, IDToken |-> i]

\* &token.Token: the embedded oauth2.Token, id_token omitted
OAuth2Token(t) == [AccessToken |-> t.AccessToken, RefreshToken |-> t.RefreshToken,
                   Expiry |-> t.Expiry]

\* (time.Since in place of time.Until)
DueSince(t, clock) == clock - t.Expiry < Minute
\* (<= in place of <)
DueInclusive(t, clock) == t.Expiry - clock <= Minute

\* time.Until(ts.token.Expiry) < time.Minute
Due(t, clock) == t.Expiry - clock < Minute

\* (*ts.token = *t in place of the merge)
mergeTokenAssign(dst, src) == src
\* (mergo.Merge without mergo.WithOverride: only empty fields of dst are filled)
mergeTokenFill(dst, src) ==
    [AccessToken  |-> IF dst.AccessToken = "" THEN src.AccessToken ELSE dst.AccessToken,
     RefreshToken |-> IF dst.RefreshToken = "" THEN src.RefreshToken ELSE dst.RefreshToken,
     Expiry       |-> IF dst.Expiry = 0 THEN src.Expiry ELSE dst.Expiry,
     IDToken      |-> IF dst.IDToken = "" THEN src.IDToken ELSE dst.IDToken]

\* mergo.Merge(dst, src, mergo.WithOverride): a non-empty field of src
\* overrides the field of dst, an empty field of src leaves it alone (no
\* answer of the collaborators below carries the zero time)
mergeToken(dst, src) ==
    [AccessToken  |-> IF src.AccessToken # "" THEN src.AccessToken ELSE dst.AccessToken,
     RefreshToken |-> IF src.RefreshToken # "" THEN src.RefreshToken ELSE dst.RefreshToken,
     Expiry       |-> IF src.Expiry # 0 THEN src.Expiry ELSE dst.Expiry,
     IDToken      |-> IF src.IDToken # "" THEN src.IDToken ELSE dst.IDToken]

\* the fields of Token in the order of the struct (oauth2.Token's, then
\* IDToken): mergo.Merge visits and writes them one after the other
Fields == <<"AccessToken", "RefreshToken", "Expiry", "IDToken">>

\* *ts.token while mergo.Merge is at work on it: the first k fields written
PartlyMerged(dst, src, k) ==
    [f \in DOMAIN dst |->
        IF \E i \in 1..k : Fields[i] = f THEN mergeToken(dst, src)[f] ELSE dst[f]]

\* ---------------------------------------------------------------- the state
VARIABLES
    now,      \* the wall clock
    token,    \* token[s]: tokenSource.token of source s
    mu,       \* mu[s]: holder of tokenSource.mu of source s (0: unlocked)
    store,    \* whether tokenSource.store is set (WithStorage)
    saved,    \* what Storage holds: the argument of the last successful Save
    metaMu,   \* holder of metaTokenSource.mu (0: unlocked)
    metaTs,   \* metaTokenSource.ts: the held source, or NilTS
    on,       \* what the application's goroutines call: "ts" or "meta"
    pc,       \* pc[p]: where caller p is
    call,     \* call[p]: the token source p's TokenEx is in, and who called it;
              \* the source metaTokenSource held when p locked it; the held
              \* token as mergeToken found it and the fields it has written
    loc,      \* loc[p]: the local token of tokenSource.TokenEx in p (what ts.new returned)
    ret,      \* ret[p]: what TokenEx returned to p
    obs,      \* obs[p]: what p's call met: the collaborator invocations it made,
              \* counted, the collaborator errors it got, the error of the
              \* source metaTokenSource held, and whether the token was due,
              \* and no other call had returned, when it began
    rct       \* the RCT meter: its backoff policy, and the reading in progress

vars == <<now, token, mu, store, saved, metaMu, metaTs, on, pc, call, loc, ret, obs,
          rct>>

NoCall == [ts |-> NilTS, frame |-> "none", held |-> NilTS,
           before |-> NilToken, merged |-> 0]
NoRet == [token |-> NilToken, err |-> "nil"]
\* bo.Reset(): no time elapsed, the interval the initial one
Reset(bo) == [elapsed |-> 0, interval |-> InitialInterval]
\* the meter at rest: no reading in progress
NoRCT == [pc |-> "idle", usage |-> "", reading |-> "", idx |-> 0, vals |-> <<>>,
          bo |-> Reset(<<>>), tries |-> 0, last |-> [res |-> 0, err |-> "nil"],
          ret |-> [val |-> 0, err |-> "nil"]]
NoObs == [refresh |-> 0, save |-> 0, newT |-> 0, newTS |-> 0,
          failed |-> <<>>, heldErr |-> "none", due0 |-> FALSE, conc |-> FALSE]

\* what the collaborators can answer
AccessTokens == {"a2"}
RefreshTokens == {"", "r2"}
IDTokens == {""}
\* the expiry a collaborator answers at time clock: more than a minute ahead
Expiries(clock) == {clock + Minute + 1}
RefreshResults(clock) ==
    {Token(a, r, e, i) : a \in AccessTokens, r \in RefreshTokens,
                         e \in Expiries(clock), i \in IDTokens}
\* the tokens a source can be constructed with
\* (expired, a minute ahead, more than a minute ahead)
SeedTokens(clock) ==
    {Token("a1", "r1", e, "i1") : e \in {clock, clock + Minute, clock + Minute + 1}}

Init ==
    /\ now = 1
    /\ on \in {"ts", "meta"}
    /\ token \in {[s \in TS |-> IF s = Direct /\ on = "ts" THEN t ELSE NilToken] :
                     t \in SeedTokens(1) \cup {NilToken}}
    /\ mu = [s \in TS |-> 0]
    /\ store \in BOOLEAN
    /\ saved = NilToken
    /\ metaMu = 0
    /\ metaTs = NilTS
    /\ pc = [p \in Procs |-> "idle"]
    /\ call = [p \in Procs |-> NoCall]
    /\ loc = [p \in Procs |-> NilToken]
    /\ ret = [p \in Procs |-> NoRet]
    /\ obs = [p \in Procs |-> NoObs]
    /\ rct = NoRCT

\* time passes
Tick ==
    /\ now < MaxTime
    /\ now' = now + 1
    /\ UNCHANGED <<token, mu, store, saved, metaMu, metaTs, on, pc, call, loc, ret, obs, rct>>

\* ------------------------------------------------------------- the callers
\* (no mutex)
CanLockAlways(holder) == TRUE

\* sync.Mutex.Lock() returns once nobody holds the mutex
CanLock(holder) == holder = 0

\* (return ts.token, nil)
TokenExResultNoErr(held, err) == [token |-> held, err |-> "nil"]

\* tokenSource.TokenEx: return ts.token, err
TokenExResult(held, err) == [token |-> held, err |-> err]

\* what a caller of the tokenSource reads through the *Token it was
\* returned: TokenEx returns the pointer ts.token itself, no copy, so the
\* fields are those of the held token at the time of the read
Pointee(p) == token[call[p].ts]

\* (return nil, nil)
TokenResultNoErr(res) == [token |-> NilToken, err |-> "nil"]

\* Token(), of both token sources, given what its call of TokenEx returned:
\* nil and the error, or the oauth2 token of TokenEx's token
TokenResult(res) ==
    IF res.err # "nil" THEN [token |-> NilToken, err |-> res.err]
    ELSE [token |-> OAuth2Token(res.token), err |-> res.err]

\* ts.store.Save(token): token is the local the refresher returned
SaveArg(held, new) == new

\* a goroutine calls TokenEx() of the tokenSource or of the metaTokenSource,
\* itself or through Token()
Start(p) ==
    /\ pc[p] = "idle"
    /\ pc' = [pc EXCEPT ![p] = IF on = "ts" THEN "ts_lock" ELSE "meta_lock"]
    /\ call' = [call EXCEPT ![p] =
           [NoCall EXCEPT !.ts = IF on = "ts" THEN Direct ELSE NilTS,
                          !.frame = IF on = "ts" THEN "direct" ELSE "none"]]
    /\ obs' = [q \in Procs |->
           IF q = p
           THEN [NoObs EXCEPT
                   !.due0 = on = "ts" /\ token[Direct] # NilToken
                            /\ Due(token[Direct], now),
                   !.conc = on = "ts" /\ \A r \in Procs : pc[r] # "done"]
           ELSE [obs[q] EXCEPT !.conc = @ /\ pc[q] # "done"]]
    /\ UNCHANGED <<now, token, mu, store, saved, metaMu, metaTs, on, loc, ret, rct>>

\* the goroutine is through with what the accessor returned
Finish(p) ==
    /\ pc[p] = "done"
    /\ pc' = [pc EXCEPT ![p] = "idle"]
    /\ call' = [call EXCEPT ![p] = NoCall]
    /\ loc' = [loc EXCEPT ![p] = NilToken]
    /\ ret' = [ret EXCEPT ![p] = NoRet]
    /\ obs' = [obs EXCEPT ![p] = NoObs]
    /\ UNCHANGED <<now, token, mu, store, saved, metaMu, metaTs, on, rct>>

\* ------------------------------------------- where TokenEx's result goes
\* the application called the tokenSource itself
Token_Return(p, res) ==
    [pc |-> "done", ret |-> res,
     metaMu |-> metaMu, metaTs |-> metaTs, newT |-> 0]

\* (if err != nil { return nil, err } after the held token source)
MetaTokenEx_HeldGivesUp(p, res) ==
    [pc |-> "done", ret |-> [token |-> IF res.err = "nil" THEN res.token ELSE NilToken,
                             err |-> res.err],
     metaMu |-> 0, metaTs |-> metaTs, newT |-> 0]

\* (return token, nil with ts.mu still locked)
MetaTokenEx_HeldNoUnlock(p, res) ==
    IF res.err = "nil"
    THEN [pc |-> "done", ret |-> [token |-> res.token, err |-> "nil"],
          metaMu |-> metaMu, metaTs |-> metaTs, newT |-> 0]
    ELSE [pc |-> "meta_newT", ret |-> NoRet,
          metaMu |-> metaMu, metaTs |-> metaTs, newT |-> 1]

\* (ts.ts = nil after the held token source returned)
MetaTokenEx_HeldDropped(p, res) ==
    IF res.err = "nil"
    THEN [pc |-> "done", ret |-> [token |-> res.token, err |-> "nil"],
          metaMu |-> 0, metaTs |-> NilTS, newT |-> 0]
    ELSE [pc |-> "meta_newT", ret |-> NoRet,
          metaMu |-> metaMu, metaTs |-> metaTs, newT |-> 1]

\* metaTokenSource.TokenEx used the held token source: its token is
\* returned, its error leads on to newT
MetaTokenEx_Held(p, res) ==
    IF res.err = "nil"
    THEN [pc |-> "done", ret |-> [token |-> res.token, err |-> "nil"],
          metaMu |-> 0, metaTs |-> metaTs, newT |-> 0]
    ELSE [pc |-> "meta_newT", ret |-> NoRet,
          metaMu |-> metaMu, metaTs |-> metaTs, newT |-> 1]

\* (without ts.ts = nil)
MetaTokenEx_BuiltKept(p, res) ==
    [pc |-> "done", ret |-> res, metaMu |-> 0, metaTs |-> metaTs, newT |-> 0]

\* (ts.ts = nil whatever the source built returned)
MetaTokenEx_BuiltReset(p, res) ==
    [pc |-> "done", ret |-> res, metaMu |-> 0, metaTs |-> NilTS, newT |-> 0]

\* (return token, nil)
MetaTokenEx_BuiltNoErr(p, res) ==
    [pc |-> "done", ret |-> [token |-> res.token, err |-> "nil"],
     metaMu |-> 0, metaTs |-> IF res.err # "nil" THEN NilTS ELSE metaTs, newT |-> 0]

\* metaTokenSource.TokenEx used the token source it just created: a failing
\* one is reset
MetaTokenEx_Built(p, res) ==
    [pc |-> "done", ret |-> res,
     metaMu |-> 0, metaTs |-> IF res.err # "nil" THEN NilTS ELSE metaTs, newT |-> 0]

After(p, res) ==
    IF call[p].frame = "direct" THEN Token_Return(p, res)
    ELSE IF call[p].frame = "held" THEN MetaTokenEx_Held(p, res)
    ELSE MetaTokenEx_Built(p, res)

\* tokenSource.TokenEx returns res to whoever called it; failed is the
\* collaborator errors the returning step got
Return(p, res, failed) ==
    LET a == After(p, res) IN
    /\ pc' = [pc EXCEPT ![p] = a.pc]
    /\ ret' = [ret EXCEPT ![p] = a.ret]
    /\ metaMu' = a.metaMu
    /\ metaTs' = a.metaTs
    /\ obs' = [obs EXCEPT ![p].failed = @ \o failed, ![p].newT = @ + a.newT,
                          ![p].heldErr = IF call[p].frame = "held" THEN res.err ELSE @]

\* ---------------------------------------------------------- tokenSource
\* tokenSource.TokenEx up to the call of the refresher: lock, the nil check,
\* the expiry check; without a token, and with one that is not due, it
\* returns at once
TokenEx_Lock(p) ==
    LET s == call[p].ts IN
    /\ pc[p] = "ts_lock"
    /\ CanLock(mu[s])
    /\ IF token[s] = NilToken
       THEN /\ Return(p, [token |-> NilToken, err |-> "uninit"], <<>>)
            /\ UNCHANGED <<mu, loc>>
       ELSE IF Due(token[s], now)
       THEN /\ mu' = [mu EXCEPT ![s] = p]
            /\ pc' = [pc EXCEPT ![p] = "ts_new"]
            /\ obs' = [obs EXCEPT ![p].refresh = @ + 1]
            /\ loc' = [loc EXCEPT ![p] = NilToken]
            /\ UNCHANGED <<ret, metaMu, metaTs>>
       ELSE /\ Return(p, TokenExResult(token[s], "nil"), <<>>)
            /\ UNCHANGED <<mu, loc>>
    /\ UNCHANGED <<now, token, store, saved, on, call, rct>>

\* ts.new(ts.token) returns: an error, or a token that mergeToken goes on to
\* merge into the held one
TokenEx_New(p) ==
    LET s == call[p].ts IN
    /\ pc[p] = "ts_new"
    /\ \/ /\ Return(p, TokenExResult(token[s], "refresh"), <<"refresh">>)
          /\ mu' = [mu EXCEPT ![s] = 0]
          /\ UNCHANGED <<loc, call>>
       \/ \E new \in RefreshResults(now) :
            /\ loc' = [loc EXCEPT ![p] = new]
            /\ call' = [call EXCEPT ![p].before = token[s], ![p].merged = 0]
            /\ pc' = [pc EXCEPT ![p] = "ts_merge"]
            /\ UNCHANGED <<mu, ret, metaMu, metaTs, obs>>
    /\ UNCHANGED <<now, token, store, saved, on, rct>>

\* ts.mergeToken(token): mergo.Merge writes the next field of *ts.token, in
\* place; after the last one the token is, with a store, handed to Save
TokenEx_Merge(p) ==
    LET s == call[p].ts
        k == call[p].merged + 1
        held == PartlyMerged(call[p].before, loc[p], k)
    IN
    /\ pc[p] = "ts_merge"
    /\ token' = [token EXCEPT ![s] = held]
    /\ IF k < Len(Fields)
       THEN /\ call' = [call EXCEPT ![p].merged = k]
            /\ UNCHANGED <<mu, pc, ret, metaMu, metaTs, obs>>
       ELSE /\ call' = [call EXCEPT ![p].before = NilToken, ![p].merged = 0]
            /\ IF store
               THEN /\ pc' = [pc EXCEPT ![p] = "ts_save"]
                    /\ obs' = [obs EXCEPT ![p].save = @ + 1]
                    /\ UNCHANGED <<mu, ret, metaMu, metaTs>>
               ELSE /\ Return(p, TokenExResult(held, "nil"), <<>>)
                    /\ mu' = [mu EXCEPT ![s] = 0]
    /\ UNCHANGED <<now, store, saved, on, loc, rct>>

\* ts.store.Save(token) returns
TokenEx_Save(p) ==
    LET s == call[p].ts IN
    /\ pc[p] = "ts_save"
    /\ \E ok \in BOOLEAN :
         /\ saved' = IF ok THEN SaveArg(token[s], loc[p]) ELSE saved
         /\ Return(p, TokenExResult(token[s], IF ok THEN "nil" ELSE "storage"),
                   IF ok THEN <<>> ELSE <<"storage">>)
    /\ mu' = [mu EXCEPT ![s] = 0]
    /\ UNCHANGED <<now, token, store, on, call, loc, rct>>

\* ------------------------------------------------------ metaTokenSource
\* newT() answers a start token
BootstrapTokens(clock) == SeedTokens(clock)

\* newTS(token): a tokenSource around the start token, at the first place
\* the held source does not occupy; the sources built before are garbage
Fresh(heldTs) == CHOOSE s \in Built \ {heldTs} : \A r \in Built \ {heldTs} : s <= r
NewTS(heldTs, t) ==
    [s \in TS |-> IF s = Fresh(heldTs) THEN t ELSE IF s \in Built THEN NilToken ELSE token[s]]

\* metaTokenSource.TokenEx: lock, then use the held token source or, without
\* one, ask newT for a start token
MetaTokenEx_Lock(p) ==
    /\ pc[p] = "meta_lock"
    /\ CanLock(metaMu)
    /\ metaMu' = p
    /\ IF metaTs # NilTS
       THEN /\ call' = [call EXCEPT ![p].ts = metaTs, ![p].frame = "held",
                                      ![p].held = metaTs]
            /\ pc' = [pc EXCEPT ![p] = "ts_lock"]
            /\ UNCHANGED obs
       ELSE /\ pc' = [pc EXCEPT ![p] = "meta_newT"]
            /\ obs' = [obs EXCEPT ![p].newT = @ + 1]
            /\ UNCHANGED call
    /\ UNCHANGED <<now, token, mu, store, saved, metaTs, on, loc, ret, rct>>

\* (ts.ts = nil before return nil, err)
MetaTokenEx_NewTErrorReset(heldTs, err) ==
    [ret |-> [token |-> NilToken, err |-> err], metaTs |-> NilTS]

\* newT() returned an error: return nil, err, with ts.ts as it is
MetaTokenEx_NewTError(heldTs, err) ==
    [ret |-> [token |-> NilToken, err |-> err], metaTs |-> heldTs]

\* newT() returns: an error, which ends the call, or a start token, around
\* which newTS builds the token source that is then used
MetaTokenEx_NewT(p) ==
    /\ pc[p] = "meta_newT"
    /\ \/ /\ ret' = [ret EXCEPT ![p] = MetaTokenEx_NewTError(metaTs, "bootstrap").ret]
          /\ metaTs' = MetaTokenEx_NewTError(metaTs, "bootstrap").metaTs
          /\ metaMu' = 0
          /\ pc' = [pc EXCEPT ![p] = "done"]
          /\ obs' = [obs EXCEPT ![p].failed = Append(@, "bootstrap")]
          /\ UNCHANGED <<token, call>>
       \/ \E t \in BootstrapTokens(now) :
            /\ token' = NewTS(metaTs, t)
            /\ metaTs' = Fresh(metaTs)
            /\ call' = [call EXCEPT ![p].ts = metaTs', ![p].frame = "built"]
            /\ pc' = [pc EXCEPT ![p] = "ts_lock"]
            /\ obs' = [obs EXCEPT ![p].newTS = @ + 1]
            /\ UNCHANGED <<ret, metaMu>>
    /\ UNCHANGED <<now, mu, store, saved, on, loc, rct>>

Next ==
    \/ Tick
    \/ \E p \in Procs :
         \/ Start(p)
         \/ Finish(p)
         \/ TokenEx_Lock(p)
         \/ TokenEx_New(p)
         \/ TokenEx_Merge(p)
         \/ TokenEx_Save(p)
         \/ MetaTokenEx_Lock(p)
         \/ MetaTokenEx_NewT(p)

Spec == Init /\ [][Next]_vars

\* what a goroutine does without waiting for a mutex: a goroutine that can
\* run, a collaborator that returns
Step(p) ==
    \/ Start(p)
    \/ Finish(p)
    \/ TokenEx_New(p)
    \/ TokenEx_Merge(p)
    \/ TokenEx_Save(p)
    \/ MetaTokenEx_NewT(p)

\* the goroutines are scheduled, every collaborator returns, and a goroutine
\* that waits in sync.Mutex.Lock() gets the mutex in the end (a waiter of
\* more than a millisecond is handed the mutex: starvation mode)
FairSpec ==
    /\ Spec
    /\ \A p \in Procs :
          /\ WF_vars(Step(p))
          /\ SF_vars(TokenEx_Lock(p))
          /\ SF_vars(MetaTokenEx_Lock(p))

\* ------------------------------------------------------------ the RCT meter
tvars == <<now, token, mu, store, saved, metaMu, metaTs, on, pc, call, loc, ret, obs>>

\* m.usage, and the readings of the meter
Usages == {"grid", "pv", "battery", "other"}
Readings == {"CurrentPower", "totalEnergy", "batterySoc"}

\* what conn.QueryFloat32 answers: a value, a recoverable error or another
DeviceValues == {1000, 2000}
RecoverableErrors == {"recoverable1", "recoverable2"}
DeviceErrors == RecoverableErrors \cup {"fatal"}
DeviceAnswers ==
    {[res |-> v, err |-> "nil"] : v \in DeviceValues}
        \cup {[res |-> 0, err |-> e] : e \in DeviceErrors}

\* the identifiers a reading queries, in the order of its queryFloat calls
Identifiers(reading, usage) ==
    IF reading = "CurrentPower"
    THEN CASE usage = "grid" -> <<"TotalGridPowerW">>
           [] usage = "pv" -> <<"SolarGenAPowerW", "SolarGenBPowerW", "S0ExternalPowerW">>
           [] usage = "battery" -> <<"BatteryPowerW">>
           [] OTHER -> <<>>
    ELSE IF reading = "totalEnergy"
    THEN CASE usage = "grid" -> <<"TotalEnergyGridWh">>
           [] usage = "pv" -> <<"TotalEnergySolarGenAWh", "TotalEnergySolarGenBWh">>
           [] usage = "battery" -> <<"TotalEnergyBattInWh", "TotalEnergyBattOutWh">>
           [] OTHER -> <<>>
    ELSE <<"BatterySoC">>

\* what the reading returns once a queryFloat ends it: vals are the results
\* of its queryFloat calls so far, err the error of the last one; an error
\* before the last identifier returns 0
ReadingResult(reading, usage, vals, err) ==
    LET n == Len(Identifiers(reading, usage)) IN
    IF n = 0 THEN [val |-> 0, err |-> "invalid usage"]
    ELSE IF Len(vals) < n THEN [val |-> 0, err |-> err]
    ELSE IF reading = "CurrentPower"
    THEN [val |-> IF usage = "pv" THEN vals[1] + vals[2] + vals[3] ELSE vals[1],
          err |-> err]
    ELSE IF reading = "totalEnergy"
    THEN [val |-> CASE usage = "grid" -> vals[1] \div 1000
                    [] usage = "pv" -> (vals[1] + vals[2]) \div 1000
                    [] OTHER -> (vals[1] - vals[2]) \div 1000,
          err |-> err]
    ELSE [val |-> vals[1] * 100, err |-> err]

\* (every error left as it is: none marked permanent)
QueryOpNoPermanent(res, err) == [res |-> res, err |-> err, permanent |-> FALSE]

\* the operation queryFloat hands to RetryWithData: the answer of
\* conn.QueryFloat32, an error that is no rct.RecoverableError marked
\* backoff.Permanent
QueryOp(res, err) ==
    [res |-> res, err |-> err,
     permanent |-> err # "nil" /\ err \notin RecoverableErrors]

\* ExponentialBackOff.NextBackOff: the (randomized) interval to wait
NextIntervals(bo) == {bo.interval - bo.interval \div 2, bo.interval + bo.interval \div 2}
\* ... and the interval after it, one and a half times as long
IncrementCurrentInterval(bo) == (3 * bo.interval + 1) \div 2

\* RetryWithData after an operation: it returns a result without error, a
\* permanent error, and any error once elapsed + next > MaxElapsedTime
\* (NextBackOff answers Stop); otherwise it waits and calls the operation again
Retries(op, bo, next) ==
    /\ op.err # "nil"
    /\ ~op.permanent
    /\ bo.elapsed + next <= MaxElapsedTime

\* CurrentPower(), totalEnergy() or batterySoc() is called on a meter of some
\* usage
RCT_Call ==
    /\ rct.pc = "idle"
    /\ \E usage \in Usages, reading \in Readings :
         IF Identifiers(reading, usage) = <<>>
         THEN rct' = [rct EXCEPT !.pc = "done", !.usage = usage, !.reading = reading,
                                 !.ret = ReadingResult(reading, usage, <<>>, "nil")]
         ELSE rct' = [rct EXCEPT !.pc = "reset", !.usage = usage, !.reading = reading,
                                 !.idx = 1]
    /\ UNCHANGED tvars

\* queryFloat begins: m.bo.Reset()
RCT_Reset ==
    /\ rct.pc = "reset"
    /\ rct' = [rct EXCEPT !.pc = "query", !.bo = Reset(rct.bo), !.tries = 0]
    /\ UNCHANGED tvars

\* conn.QueryFloat32(id) answers after some time; RetryWithData waits and
\* retries, or queryFloat returns and the reading goes on to its next
\* identifier or returns
RCT_Query ==
    /\ rct.pc = "query"
    /\ \E d \in {0, SlowQuery}, answer \in DeviceAnswers :
         LET op == QueryOp(answer.res, answer.err)
             bo == [rct.bo EXCEPT !.elapsed = @ + d]
             vals == Append(rct.vals, op.res)
             ids == Identifiers(rct.reading, rct.usage)
         IN \E next \in NextIntervals(bo) :
              IF Retries(op, bo, next)
              THEN rct' = [rct EXCEPT !.bo = [elapsed |-> bo.elapsed + next,
                                              interval |-> IncrementCurrentInterval(bo)],
                                      !.tries = @ + 1, !.last = answer]
              ELSE IF op.err # "nil" \/ rct.idx = Len(ids)
              THEN rct' = [rct EXCEPT !.pc = "done", !.bo = bo, !.tries = @ + 1,
                                      !.last = answer, !.vals = vals,
                                      !.ret = ReadingResult(rct.reading, rct.usage,
                                                            vals, op.err)]
              ELSE rct' = [rct EXCEPT !.pc = "reset", !.bo = bo, !.tries = @ + 1,
                                      !.last = answer, !.vals = vals, !.idx = @ + 1]
    /\ UNCHANGED tvars

\* the caller is through with the reading; the meter keeps its backoff policy
RCT_Finish ==
    /\ rct.pc = "done"
    /\ rct' = [NoRCT EXCEPT !.bo = rct.bo]
    /\ UNCHANGED tvars

InitRCT ==
    /\ Init
    /\ on = "ts" /\ ~store /\ token[Direct] = NilToken

NextRCT ==
    \/ RCT_Call
    \/ RCT_Reset
    \/ RCT_Query
    \/ RCT_Finish

SpecRCT == InitRCT /\ [][NextRCT]_vars

\* ================================================================ claims
RECURSIVE Refreshes(_)
\* the refresher invocations of the calls of callers 1..n
Refreshes(n) == IF n = 0 THEN 0 ELSE obs[n].refresh + Refreshes(n - 1)

\* every caller has called TokenEx of the one tokenSource while its token
\* was due, every call began before any of them returned, and all returned
ConcurrentDueCalls ==
    /\ on = "ts"
    /\ \A p \in Procs : pc[p] = "done" /\ obs[p].due0 /\ obs[p].conc

SameToken == \A p, q \in Procs : ret[p].token = ret[q].token

\* C1 as stated: N concurrent TokenEx calls on a tokenSource whose token is
\* due invoke the refresher exactly once in total and return the same token.
C1_Original == ConcurrentDueCalls => Refreshes(NProcs) = 1 /\ SameToken

\* C1 as amended: N concurrent TokenEx calls on a tokenSource whose token is
\* due invoke the refresher exactly once in total and return the same,
\* refreshed, token to all, provided the refresh succeeds and leaves the held
\* token not due (its expiry at least a minute ahead) while the calls last.
C1_OneRefresh ==
    ( /\ ConcurrentDueCalls
      /\ \A p \in Procs : obs[p].refresh >= 1 =>
            ret[p].err # "refresh" /\ ret[p].token.Expiry - now >= Minute )
    => /\ Refreshes(NProcs) = 1
       /\ SameToken
       /\ \A p \in Procs : ret[p].token = token[Direct]

C1_Witness ==
    /\ ConcurrentDueCalls
    /\ Refreshes(NProcs) = 1
    /\ \E p \in Procs : obs[p].refresh = 1 /\ ret[p].err = "nil"
    /\ \A p \in Procs : ret[p].token.AccessToken = "a2"

\* the callers inside the refresh of token source s: ts.new or Save in flight
Refreshing(s) ==
    {p \in Procs : pc[p] \in {"ts_new", "ts_merge", "ts_save"} /\ call[p].ts = s}

\* C2: at most one refresh is in flight per tokenSource, at most one newT per
\* metaTokenSource, and at most one refresh over all the sources the
\* metaTokenSource has built.
C2_OneInFlight ==
    /\ \A s \in TS : Cardinality(Refreshing(s)) <= 1
    /\ Cardinality({p \in Procs : pc[p] = "meta_newT"}) <= 1
    /\ on = "meta" => Cardinality(UNION {Refreshing(s) : s \in Built}) <= 1
    /\ on = "meta" =>
          Cardinality({p \in Procs : pc[p] \in {"meta_newT", "ts_lock", "ts_new", "ts_merge", "ts_save"}}) <= 1

C2_Witness ==
    \E p, q \in Procs :
        /\ p # q
        /\ pc[p] = "ts_new" /\ pc[q] = "ts_lock"
        /\ call[p].ts = Direct /\ call[q].ts = Direct

\* the merge of what caller p's refresher returned completes in this step
Merged(p) == pc[p] = "ts_merge" /\ pc'[p] # "ts_merge"

\* caller p's refresher, or its Save, returns an error in this step
Fails(p, e) == obs'[p].failed = Append(obs[p].failed, e)
RefreshFails(p) == pc[p] = "ts_new" /\ Fails(p, "refresh")
SaveFails(p) == pc[p] = "ts_save" /\ Fails(p, "storage")

\* C3: a refresh never empties a non-empty refresh token: an answer without
\* refresh token leaves the held one, an answer with one replaces it, and the
\* non-empty access token and expiry of the answer replace the held ones.
C3_Merge ==
    [][ /\ \A s \in TS :
             (token[s] # NilToken /\ token'[s] # NilToken /\ token[s].RefreshToken # "")
                => token'[s].RefreshToken # ""
        /\ \A p \in Procs : Merged(p) =>
             LET old == call[p].before
                 new == loc[p]
                 held == token'[call[p].ts]
             IN /\ new.RefreshToken = "" => held.RefreshToken = old.RefreshToken
                /\ new.RefreshToken # "" => held.RefreshToken = new.RefreshToken
                /\ new.AccessToken # "" => held.AccessToken = new.AccessToken
                /\ new.Expiry # 0 => held.Expiry = new.Expiry
      ]_vars

C3_Witness ==
    \E p \in Procs :
        /\ pc[p] = "ts_save"
        /\ loc[p].RefreshToken = ""
        /\ token[call[p].ts].RefreshToken = "r1"
        /\ token[call[p].ts].AccessToken = "a2"

Checks(p) == pc[p] = "ts_lock" /\ pc'[p] # "ts_lock" /\ token[call[p].ts] # NilToken

\* C5: TokenEx of a tokenSource whose token expires more than a minute from
\* now returns that token, unchanged, and no error, and invokes neither the
\* refresher nor Save.
C5_NotDue ==
    [][ \A p \in Procs :
          (Checks(p) /\ token[call[p].ts].Expiry - now > Minute)
             => /\ token' = token
                /\ saved' = saved
                /\ obs'[p].refresh = obs[p].refresh
                /\ obs'[p].save = obs[p].save
                /\ pc'[p] \notin {"ts_new", "ts_save"}
                /\ call[p].frame = "direct" =>
                      /\ pc'[p] = "done"
                      /\ ret'[p] = [token |-> token[call[p].ts], err |-> "nil"]
                      /\ obs'[p].refresh = 0 /\ obs'[p].save = 0
      ]_vars

C5_Witness ==
    \E p \in Procs :
        /\ on = "ts" /\ pc[p] = "done"
        /\ obs[p].refresh = 0 /\ obs[p].save = 0
        /\ ret[p].err = "nil"
        /\ ret[p].token = token[Direct]
        /\ ret[p].token.Expiry - now > Minute

\* C6: TokenEx of a tokenSource that holds a token invokes the refresher once
\* if expiry - now < 1 minute and not at all otherwise (exactly a minute is
\* not due); no call of it invokes the refresher twice.
C6_RefreshIffDue ==
    /\ [](on = "ts" => \A p \in Procs : obs[p].refresh <= 1)
    /\ [][ \A p \in Procs :
             /\ Checks(p) =>
                  /\ token[call[p].ts].Expiry - now < Minute
                        => obs'[p].refresh = obs[p].refresh + 1 /\ pc'[p] = "ts_new"
                  /\ token[call[p].ts].Expiry - now >= Minute
                        => obs'[p].refresh = obs[p].refresh /\ pc'[p] # "ts_new"
             /\ obs'[p].refresh > obs[p].refresh => Checks(p)
         ]_vars

C6_Witness ==
    \E p \in Procs :
        /\ on = "ts" /\ pc[p] = "done"
        /\ obs[p].refresh = 0
        /\ ret[p].err = "nil"
        /\ ret[p].token.Expiry - now = Minute

\* C7: when the refresher returns an error, the held token is what it was,
\* Save is not invoked, TokenEx returns that error, the refresh is not
\* repeated in the call, and the token is still due for the next call.
C7_RefreshError ==
    [][ \A p \in Procs :
          RefreshFails(p)
             => /\ token' = token
                /\ saved' = saved
                /\ obs'[p].save = obs[p].save
                /\ obs'[p].refresh = obs[p].refresh
                /\ pc'[p] # "ts_save"
                /\ token'[call[p].ts].Expiry - now' < Minute
                /\ call[p].frame = "direct" =>
                      /\ pc'[p] = "done"
                      /\ ret'[p].err = "refresh"
                      /\ obs'[p].refresh = 1 /\ obs'[p].save = 0
      ]_vars

C7_Witness ==
    \E p \in Procs :
        /\ on = "ts" /\ pc[p] = "done"
        /\ ret[p].err = "refresh"
        /\ obs[p].refresh = 1
        /\ token[Direct] = ret[p].token

\* C8: when Save fails after a refresh, TokenEx returns the storage error,
\* the held token keeps the refreshed values, and a later TokenEx, the
\* refreshed expiry being more than a minute away, returns them and no error.
C8_SaveError ==
    [][ \A p \in Procs :
          /\ (on = "ts" /\ SaveFails(p))
                => /\ ret'[p].err = "storage"
                   /\ saved' = saved
                   /\ token' = token
                   /\ ret'[p].token = token[Direct]
                   /\ token'[Direct].AccessToken = loc[p].AccessToken
                   /\ token'[Direct].Expiry = loc[p].Expiry
          /\ (on = "ts" /\ Checks(p) /\ token[Direct].Expiry - now > Minute)
                => ret'[p] = [token |-> token[Direct], err |-> "nil"]
      ]_vars

C8_Witness ==
    \E p, q \in Procs :
        /\ on = "ts" /\ pc[p] = "done" /\ pc[q] = "done"
        /\ ret[p].err = "storage"
        /\ ret[p].token.AccessToken = "a2"
        /\ obs[q].refresh = 0
        /\ ret[q] = [token |-> ret[p].token, err |-> "nil"]

\* C9: an accessor returns a token and no error, or an error and no token,
\* never both.
C9_TokenOrError ==
    \A p \in Procs : pc[p] = "done" =>
        /\ ~(ret[p].err # "nil" /\ ret[p].token # NilToken)
        /\ ~(TokenResult(ret[p]).err # "nil" /\ TokenResult(ret[p]).token # NilToken)

\* C10: on a tokenSource without a token, TokenEx and Token fail with the
\* not-initialized error, invoke neither the refresher nor Save, and the
\* tokenSource never comes to hold a token.
C10_Uninitialized ==
    /\ [](on = "ts" /\ token[Direct] = NilToken =>
            /\ saved = NilToken
            /\ \A p \in Procs :
                 /\ pc[p] \notin {"ts_new", "ts_save"}
                 /\ obs[p].refresh = 0 /\ obs[p].save = 0
                 /\ pc[p] = "done" =>
                      /\ ret[p] = [token |-> NilToken, err |-> "uninit"]
                      /\ TokenResult(ret[p]) = [token |-> NilToken, err |-> "uninit"])
    /\ [][on = "ts" /\ token[Direct] = NilToken => token'[Direct] = NilToken]_vars

C10_Witness ==
    \E p, q \in Procs :
        /\ p # q /\ on = "ts" /\ token[Direct] = NilToken
        /\ pc[p] = "done" /\ pc[q] = "done"
\* ------------------------------------------------ metaTokenSource claims
InTokenEx == {"ts_lock", "ts_new", "ts_merge", "ts_save"}

\* in this step a collaborator of the source metaTokenSource holds, or of
\* the one it just built, returns an error to caller p's call
HeldFails(p) ==
    call[p].frame = "held" /\ pc[p] \in InTokenEx /\ obs'[p].failed # obs[p].failed
BuiltFails(p) ==
    call[p].frame = "built" /\ pc[p] \in InTokenEx /\ obs'[p].failed # obs[p].failed
NewTFails(p) ==
    pc[p] = "meta_newT" /\ Fails(p, "bootstrap")
NewTSucceeds(p) ==
    pc[p] = "meta_newT" /\ pc'[p] # "meta_newT" /\ ~NewTFails(p)
\* caller p's call of metaTokenSource.TokenEx returns in this step
MetaReturns(p) == on = "meta" /\ pc[p] # "done" /\ pc'[p] = "done"

\* C11: when the held source's TokenEx fails, the same call invokes newT once
\* and, when newT succeeds, newTS once and then TokenEx of the source built;
\* when that fails too the held source is cleared and the error returned, and
\* a call that finds no held source invokes newT again.
C11_Rebuild ==
    /\ [](\A p \in Procs : obs[p].newT <= 1 /\ obs[p].newTS <= 1)
    /\ [][ \A p \in Procs :
             /\ HeldFails(p) =>
                  /\ pc'[p] = "meta_newT" /\ metaMu' = p
                  /\ obs'[p].newT = 1 /\ obs'[p].newTS = 0
             /\ (NewTSucceeds(p) /\ call[p].held # NilTS) =>
                  /\ obs'[p].newT = 1 /\ obs'[p].newTS = 1
                  /\ metaTs' \notin {NilTS, call[p].held}
                  /\ pc'[p] = "ts_lock" /\ call'[p].ts = metaTs'
                  /\ call'[p].frame = "built"
             /\ BuiltFails(p) =>
                  /\ metaTs' = NilTS /\ metaMu' = 0
                  /\ pc'[p] = "done"
                  /\ Fails(p, ret'[p].err)
                  /\ obs'[p].newT = 1 /\ obs'[p].newTS = 1
             /\ (pc[p] = "meta_lock" /\ pc'[p] # "meta_lock" /\ metaTs = NilTS) =>
                  pc'[p] = "meta_newT" /\ obs'[p].newT = 1
         ]_vars

\* the held source failed, the one built in its place failed too
C11_Witness ==
    \E p \in Procs :
        /\ on = "meta" /\ pc[p] = "done"
        /\ obs[p].heldErr \notin {"none", "nil"}
        /\ obs[p].newT = 1 /\ obs[p].newTS = 1
        /\ ret[p].err \in {"refresh", "storage"}
        /\ metaTs = NilTS

\* C12 as claimed: a call in which the held source's TokenEx failed leaves
\* metaTokenSource without a source, or with a newly built one whose TokenEx
\* succeeded in the call.
C12_Original ==
    [][ \A p \in Procs :
          (MetaReturns(p) /\ obs'[p].heldErr \notin {"none", "nil"}) =>
             \/ metaTs' = NilTS
             \/ /\ metaTs' # call[p].held /\ obs'[p].newTS = 1
                /\ ret'[p].err = "nil"
      ]_vars

\* C12: a call in which the held source's TokenEx failed leaves
\* metaTokenSource without a source, or with a newly built one whose TokenEx
\* succeeded in the call, or, when newT failed, with the source it held.
C12_NotRetained ==
    [][ \A p \in Procs :
          (MetaReturns(p) /\ obs'[p].heldErr \notin {"none", "nil"}) =>
             \/ metaTs' = NilTS /\ ret'[p].err \in {"refresh", "storage"}
             \/ /\ metaTs' \notin {NilTS, call[p].held} /\ obs'[p].newTS = 1
                /\ ret'[p].err = "nil"
             \/ /\ metaTs' = call[p].held /\ obs'[p].newTS = 0
                /\ ret'[p].err = "bootstrap"
      ]_vars

\* the held source failed, the one built in its place did not
C12_Witness ==
    \E p \in Procs :
        /\ on = "meta" /\ pc[p] = "done"
        /\ obs[p].heldErr \notin {"none", "nil"}
        /\ ret[p].err = "nil"
        /\ metaTs \notin {NilTS, call[p].held}

\* C13: when newT fails the call returns its error and no token, newTS is
\* not invoked and metaTokenSource holds what it held before the call; without
\* a source it stays without one, and the next call invokes newT again.
C13_BootstrapError ==
    [][ \A p \in Procs :
          /\ NewTFails(p) =>
               /\ pc'[p] = "done" /\ metaMu' = 0
               /\ ret'[p] = [token |-> NilToken, err |-> "bootstrap"]
               /\ obs'[p].newTS = 0 /\ obs'[p].newT = 1
               /\ metaTs' = metaTs /\ metaTs' = call[p].held
               /\ token' = token
          /\ (pc[p] = "meta_lock" /\ pc'[p] # "meta_lock" /\ metaTs = NilTS) =>
               pc'[p] = "meta_newT" /\ obs'[p].newT = obs[p].newT + 1
      ]_vars

\* newT failed in a call that found no source, and the next call is at newT
C13_Witness ==
    \E p, q \in Procs :
        /\ on = "meta" /\ pc[p] = "done"
        /\ call[p].held = NilTS /\ ret[p].err = "bootstrap"
        /\ metaTs = NilTS
        /\ pc[q] = "meta_newT"

\* C14: newT is invoked only without a held source or when the refresher of
\* the held source returned an error in the call; a held source whose Save
\* failed after a refresh that succeeded leads neither to newT nor to another
\* held source.
C14_OnlyBrokenRefresh ==
    [][ \A p \in Procs :
          /\ obs'[p].newT > obs[p].newT =>
               metaTs = NilTS \/ (call[p].frame = "held" /\ RefreshFails(p))
          /\ (call[p].frame = "held" /\ SaveFails(p)) =>
               /\ obs'[p].newT = obs[p].newT
               /\ pc'[p] # "meta_newT"
               /\ metaTs' = metaTs
      ]_vars

\* the call of the held source's TokenEx returns without an error in this step
HeldSucceeds(p) ==
    /\ call[p].frame = "held" /\ pc[p] \in InTokenEx /\ pc'[p] \notin InTokenEx
    /\ obs'[p].failed = obs[p].failed

\* C15: when the held source's TokenEx succeeds the call returns its token and
\* no error, invokes neither newT nor newTS and leaves the same source held.
C15_HeldSucceeds ==
    [][ \A p \in Procs :
          HeldSucceeds(p) =>
             /\ pc'[p] = "done" /\ metaMu' = 0
             /\ ret'[p] = [token |-> token'[call[p].ts], err |-> "nil"]
             /\ obs'[p].newT = 0 /\ obs'[p].newTS = 0
             /\ metaTs' = metaTs /\ metaTs' = call[p].held /\ metaTs' # NilTS
      ]_vars

\* the held source refreshed its token and returned it
C15_Witness ==
    \E p \in Procs :
        /\ on = "meta" /\ pc[p] = "done"
        /\ obs[p].heldErr = "nil" /\ obs[p].refresh = 1
        /\ ret[p] = [token |-> token[metaTs], err |-> "nil"]
        /\ metaTs = call[p].held
        /\ obs[p].newT = 0 /\ obs[p].newTS = 0

\* C16: what a caller reads through a token TokenEx returned to it is never
\* a token half merged, but the whole token before or after some refresh,
\* also while another call merges; and the held token changes only in steps
\* of the call that holds the lock.
C16_NeverMidMerge ==
    /\ [](on = "ts" =>
            \A p, q \in Procs :
               (/\ pc[p] = "done" /\ ret[p].token # NilToken
                /\ pc[q] = "ts_merge" /\ call[q].ts = call[p].ts)
                  => Pointee(p) \in {call[q].before, mergeToken(call[q].before, loc[q])})
    /\ [][ on = "ts" =>
             \A s \in TS : token'[s] # token[s] =>
                \E q \in Procs : mu[s] = q /\ call[q].ts = s
         ]_vars

\* C17 as claimed: a call in which a collaborator returned an error returns
\* an error of a collaborator that failed, and a call in which the held
\* source's TokenEx returned an error returns that error.
C17_Original ==
    \A p \in Procs :
        pc[p] = "done" =>
           /\ obs[p].failed # <<>> =>
                 \E i \in DOMAIN obs[p].failed : ret[p].err = obs[p].failed[i]
           /\ obs[p].heldErr \notin {"none", "nil"} => ret[p].err = obs[p].heldErr

\* C17: the error of the refresher or of Save, of a source called directly
\* or of one metaTokenSource just built, and the error of newT, end the call
\* and are what it returns; every error returned is the error a collaborator
\* returned in the returning step; the error of metaTokenSource's held
\* source is not returned: the call goes on to newT, and returns the outcome
\* of that and of the source built.
C17_ErrorsReturned ==
    [][ \A p \in Procs :
          /\ (call[p].frame \in {"direct", "built"} /\ RefreshFails(p)) =>
               pc'[p] = "done" /\ ret'[p].err = "refresh"
          /\ (call[p].frame \in {"direct", "built"} /\ SaveFails(p)) =>
               pc'[p] = "done" /\ ret'[p].err = "storage"
          /\ NewTFails(p) =>
               pc'[p] = "done" /\ ret'[p].err = "bootstrap"
          /\ HeldFails(p) =>
               pc'[p] = "meta_newT" /\ ret'[p] = NoRet
          /\ (pc[p] # "done" /\ pc'[p] = "done" /\ ret'[p].err # "nil") =>
               ret'[p].err = "uninit" \/ Fails(p, ret'[p].err)
          /\ (pc[p] # "done" /\ pc'[p] = "done" /\ ret'[p].err = "nil") =>
               obs'[p].failed = obs[p].failed
      ]_vars

\* the held source's Save failed, then newT failed: the call returned the
\* error of newT
C17_Witness ==
    \E p \in Procs :
        /\ on = "meta" /\ pc[p] = "done"
        /\ obs[p].heldErr = "storage"
        /\ obs[p].failed = <<"storage", "bootstrap">>
        /\ ret[p].err = "bootstrap"

\* no collaborator returns an error in this step
NoCollaboratorFails ==
    \A p \in Procs : obs'[p].failed = obs[p].failed \/ obs'[p].failed = <<>>

\* C18: from every state, a call of metaTokenSource.TokenEx that returns in
\* a step in which no collaborator fails (newT, where invoked, and the last
\* TokenEx succeeded) returns a token and no error and leaves a source held;
\* and when from some time on no collaborator fails, then from some time on
\* every call that has returned has returned without error, and calls keep
\* returning a token.
C18_Recovers ==
    /\ [][ \A p \in Procs :
             (MetaReturns(p) /\ obs'[p].failed = obs[p].failed) =>
                /\ ret'[p].err = "nil" /\ ret'[p].token # NilToken
                /\ metaTs' # NilTS /\ metaTs' = call[p].ts
                /\ ret'[p].token = token'[metaTs']
         ]_vars
    /\ (on = "meta" /\ <>[][NoCollaboratorFails]_vars) =>
          /\ <>[](\A p \in Procs : pc[p] = "done" => ret[p].err = "nil")
          /\ []<>(\E p \in Procs :
                    pc[p] = "done" /\ ret[p].err = "nil" /\ metaTs # NilTS)

\* a call returns a token from the source built after the held source and
\* then newT had failed in the call before
C18_Witness ==
    \E p, q \in Procs :
        /\ on = "meta"
        /\ pc[q] = "done" /\ obs[q].failed = <<"refresh", "bootstrap">>
        /\ pc[p] = "done" /\ ret[p].err = "nil" /\ obs[p].newT = 1
        /\ call[p].held # NilTS
        /\ metaTs = call[p].ts

\* C19: a mutex is held only by a call that is between its Lock and its
\* return, a call that has returned (on whichever path) holds none, the
\* mutex of a tokenSource under a metaTokenSource is held only by the holder
\* of the metaTokenSource's mutex, a caller waiting for the outer mutex holds
\* no inner one, and every call that has begun returns.
C19_Terminates ==
    /\ [](\A p \in Procs :
            /\ pc[p] \in {"ts_new", "ts_merge", "ts_save"} <=>
                  \E s \in TS : mu[s] = p /\ call[p].ts = s
            /\ pc[p] \in {"meta_newT"} \cup InTokenEx /\ on = "meta" <=> metaMu = p
            /\ pc[p] \in {"idle", "done", "meta_lock"} =>
                  metaMu # p /\ \A s \in TS : mu[s] # p
            /\ \A s \in TS : (mu[s] = p /\ on = "meta") => metaMu = p)
    /\ \A p \in Procs : (pc[p] \notin {"idle", "done"}) ~> (pc[p] = "done")

\* a call returned the refresher's error and released the mutex, which the
\* next caller holds
C19_Witness ==
    \E p, q \in Procs :
        /\ on = "ts"
        /\ pc[p] = "done" /\ ret[p].err = "refresh"
        /\ mu[Direct] = q /\ pc[q] = "ts_save"

\* ---------------------------------------------------------- RCT claims
\* conn.QueryFloat32 answers in this step
Attempt == rct.pc = "query" /\ rct'.tries = rct.tries + 1

\* C20: queryFloat resets the backoff policy before its first attempt; an
\* attempt that succeeds ends the query with its value, one that fails with
\* an error that is not recoverable ends the reading with that error, one
\* that fails with a recoverable error is followed by another attempt of the
\* same query or, when the policy has no time left, ends the reading with
\* that error; no other attempt is followed by a retry, and a reading
\* returns the error of the first of its queries that fails, without
\* querying the identifiers after it.
C20_Retry ==
    [][ /\ (rct.pc # "query" /\ rct'.pc = "query") =>
              /\ rct.pc = "reset"
              /\ rct'.bo = [elapsed |-> 0, interval |-> InitialInterval]
              /\ rct'.tries = 0
        /\ (Attempt /\ rct'.last.err = "nil") =>
              /\ rct'.pc \in {"reset", "done"}
              /\ rct'.vals = Append(rct.vals, rct'.last.res)
              /\ rct'.pc = "done" =>
                    rct'.ret.err = "nil" /\ rct.idx = Len(Identifiers(rct.reading, rct.usage))
              /\ rct'.pc = "reset" =>
                    rct'.idx = rct.idx + 1 /\ rct.idx < Len(Identifiers(rct.reading, rct.usage))
        /\ (Attempt /\ rct'.last.err = "fatal") =>
              rct'.pc = "done" /\ rct'.ret.err = "fatal"
        /\ (Attempt /\ rct'.last.err \in RecoverableErrors) =>
              \/ /\ rct'.pc = "query" /\ rct'.idx = rct.idx /\ rct'.vals = rct.vals
                 /\ rct'.bo.elapsed <= MaxElapsedTime
              \/ /\ rct'.pc = "done" /\ rct'.ret.err = rct'.last.err
                 /\ \E next \in NextIntervals(rct'.bo) :
                       rct'.bo.elapsed + next > MaxElapsedTime
        /\ (Attempt /\ rct'.pc = "query") => rct'.last.err \in RecoverableErrors
        /\ (Attempt /\ rct'.last.err # "nil") =>
              rct'.pc = "query" \/ (rct'.pc = "done" /\ rct'.ret.err = rct'.last.err)
      ]_vars

\* the second query of CurrentPower of a pv meter met recoverable errors
\* until the policy gave up: the reading returned the last of them
C20_Witness ==
    /\ rct.pc = "done"
    /\ rct.reading = "CurrentPower" /\ rct.usage = "pv"
    /\ rct.idx = 2 /\ rct.tries >= 3
    /\ rct.last.err = "recoverable2" /\ rct.ret = [val |-> 0, err |-> "recoverable2"]

====
